---- MODULE Spec2Model ----
(***************************************************************************)
(* The matching / notification pipeline of get-volunteers-backend.        *)
(*                                                                         *)
(* State: the three tables (volunteers, needs, volunteer_need_matches),    *)
(* the matching runs in flight (each suspended at most once, at the        *)
(* awaited Gemini call), a record of the operation executed last, and, as  *)
(* history, one earlier run that an observer chose to remember.           *)
(***************************************************************************)
EXTENDS Integers, Sequences, FiniteSets, Bags, TLC

\* ---------------------------------------------------------------- bounds
MaxVolunteers == 2      \* rows ever inserted in table volunteers
MaxNeeds == 2           \* rows ever inserted in table needs
MaxResp == 2            \* items in one Gemini response array

\* get_volunteers / get_needs: default value of the limit parameter
ExtraRows == 1          \* rows a table holds beyond one default page
DefaultLimit == 100

VolunteerIds == 1..MaxVolunteers
NeedIds == 1..MaxNeeds
Runs == {"t1", "t2"}    \* background tasks that can be in flight together

VARIABLES
    volunteers,        \* ids of the rows of table volunteers
    needs,             \* table needs: id -> owner_id
    nextVolunteerId,   \* autoincrement of volunteers.id
    nextNeedId,        \* autoincrement of needs.id
    matches,           \* table volunteer_need_matches, a bag of rows
    fkEnforced,        \* whether the bound database enforces FOREIGN KEY
    run,               \* the matching runs, one record per task
    last,              \* the operation executed last and what it left behind
    kept               \* history: one completed run an observer remembers

vars == <<volunteers, needs, nextVolunteerId, nextNeedId, matches, fkEnforced, run, last, kept>>

\* ------------------------------------------------------------ bag helpers
Row(v, n, s) == [volunteer_id |-> v, need_id |-> n, match_details |-> s]

BagSize(B) == BagCardinality(B)

\* get_matches_for_need / get_matches_for_volunteer
GetMatchesForNeed(m, need_id) == [row \in {x \in DOMAIN m : x.need_id = need_id} |-> m[row]]

GetMatchesForVolunteer(m, volunteer_id) ==
    [row \in {x \in DOMAIN m : x.volunteer_id = volunteer_id} |-> m[row]]

\* create_match: add one row and commit
CreateMatch(m, volunteer_id, need_id, match_details) ==
    m (+) SetToBag({Row(volunteer_id, need_id, match_details)})

\* Variant of delete_matches_for_need without its WHERE clause
DeleteMatchesForNeedAll(m, need_id) == EmptyBag

\* Variants of the two deletes that delete nothing
DeleteMatchesForNeedKeeps(m, need_id) == m

DeleteMatchesForVolunteerKeeps(m, volunteer_id) == m

\* delete_matches_for_need: delete every row with that need_id and commit
DeleteMatchesForNeed(m, need_id) == [row \in {x \in DOMAIN m : x.need_id # need_id} |-> m[row]]

\* delete_matches_for_volunteer: delete every row with that volunteer_id and commit
DeleteMatchesForVolunteer(m, volunteer_id) ==
    [row \in {x \in DOMAIN m : x.volunteer_id # volunteer_id} |-> m[row]]

\* ------------------------------------------------------------ repository
\* Variant of get_volunteer that finds a row for every id
GetVolunteerAny(vs, volunteer_id) == TRUE

\* get_volunteer / get_need: .first() of the query by id, None when no row
GetVolunteer(vs, volunteer_id) == volunteer_id \in vs

GetNeed(ns, need_id) == need_id \in DOMAIN ns

\* offset(0).limit(100).all(): the first DefaultLimit rows in primary-key order
FirstRows(ids, limit) == {i \in ids : Cardinality({j \in ids : j < i}) < limit}

GetVolunteers(vs) == FirstRows(vs, DefaultLimit)

GetNeeds(ns) == FirstRows(DOMAIN ns, DefaultLimit)

\* ------------------------------------------------------ the Gemini answer
\* A JSON value of an item's field: .get() gives None for a missing key.
IntField(k) == [t |-> "int", v |-> k, s |-> ""]

StrField(x) == [t |-> "str", v |-> 0, s |-> x]

NoneField == [t |-> "none", v |-> 0, s |-> ""]

IsInt(f) == f.t = "int"      \* isinstance(x, int)

\* Variant of the check on match_details that wants a non-empty string
IsStrNonEmpty(f) == f.t = "str" /\ f.s # ""

IsStr(f) == f.t = "str"      \* isinstance(x, str)

Item(idf, mdf) == [id |-> idf, md |-> mdf]

\* the integers Gemini may name: every id either table can hold
ItemIds == VolunteerIds \cup NeedIds

\* The items a response array is built from.  Well-formed ones name an id the
\* other table can hold; the others are one for each way of being malformed,
\* and one with the empty string as its explanation.
GoodItems == {Item(IntField(k), StrField("fit")) : k \in ItemIds}

OddItems ==
    {Item(IntField(1), StrField("")),
     Item(StrField("not_an_int"), StrField("fit")), Item(NoneField, StrField("fit")),
     Item(IntField(1), IntField(7)), Item(IntField(1), NoneField)}

SeqsUpTo(S, n) == UNION {[1..k -> S] : k \in 0..n}

\* What generate_content_async can do: raise (provider error, timeout, text
\* that json.loads rejects), answer without candidates/content/parts, or
\* answer with a JSON array.
Failures == {[kind |-> k, items |-> <<>>] : k \in {"raise", "no_content"}}

Answers(items) == {[kind |-> "json", items |-> a] : a \in SeqsUpTo(items, MaxResp)}

Recipients == {"volunteer", "contact"}

NoneResponse == [none |-> TRUE, items |-> <<>>]

\* _call_gemini_api: json.loads of the first part's text; None when the
\* response has no content and when anything raises.
CallGeminiApi(o) ==
    IF o.kind = "json" THEN [none |-> FALSE, items |-> o.items] ELSE NoneResponse

\* `if gemini_response:` -- None and the empty list are both falsy
Truthy(resp) == ~resp.none /\ resp.items # <<>>

\* ------------------------------------------------------------ the console
Ev(e, v, n, s) == [ev |-> e, v |-> v, n |-> n, s |-> s]

\* ---------------------------------------------------------- EmailService
\* _send_email: sg.send raising is caught and printed.  `down` is the set of
\* recipients ("volunteer", "contact") for which the provider raises.
SendEmail(to, v, n, down) ==
    IF to \in down THEN Ev("email_error", v, n, to) ELSE Ev("email_sent", v, n, to)

\* Variant of send_match_notification that writes to the need's contact first
SendMatchNotificationContactFirst(v, n, down) ==
    <<SendEmail("contact", v, n, down), SendEmail("volunteer", v, n, down)>>

\* Variant of send_match_notification that gives up after a failed send
SendMatchNotificationStops(v, n, down) ==
    IF "volunteer" \in down
    THEN <<SendEmail("volunteer", v, n, down)>>
    ELSE <<SendEmail("volunteer", v, n, down), SendEmail("contact", v, n, down)>>

\* send_match_notification: the volunteer's message, then the need contact's
SendMatchNotification(v, n, down) ==
    <<SendEmail("volunteer", v, n, down), SendEmail("contact", v, n, down)>>

\* -------------------------------------------------------- MatchingService
\* The database as one session sees it when a statement runs.
Db(vs, ns, fk) == [volunteers |-> vs, needs |-> ns, fk |-> fk]

\* Whether the INSERT of create_match raises: the store fails on this call
\* (`failAt` numbers the create_match calls of one run, 0 = never), or a
\* database that enforces the two FOREIGN KEYs has no row for one of them.
CreateMatchRaises(db, volunteer_id, need_id, k, failAt) ==
    \/ k = failAt
    \/ db.fk /\ (volunteer_id \notin db.volunteers \/ need_id \notin DOMAIN db.needs)

\* The state of one run of the loop over gemini_response.
LoopState(m, log, k, raised) == [m |-> m, log |-> log, k |-> k, raised |-> raised]

\* Variant of the loop body that catches the error of create_match and goes on
NeedItemSwallows(st, match_data, need_id, db, failAt, down) ==
    LET volunteer_id == match_data.id
        match_details == match_data.md
    IN  IF IsInt(volunteer_id) /\ IsStr(match_details)
        THEN IF GetVolunteer(db.volunteers, volunteer_id.v)
             THEN IF CreateMatchRaises(db, volunteer_id.v, need_id, st.k + 1, failAt)
                  THEN LoopState(st.m, Append(st.log, Ev("raise", volunteer_id.v, need_id, "create_match")),
                                 st.k + 1, FALSE)
                  ELSE LoopState(CreateMatch(st.m, volunteer_id.v, need_id, match_details.s),
                                 Append(st.log, Ev("record", volunteer_id.v, need_id, match_details.s))
                                     \o SendMatchNotification(volunteer_id.v, need_id, down),
                                 st.k + 1, FALSE)
             ELSE LoopState(st.m, Append(st.log, Ev("warn_nonexistent", volunteer_id.v, need_id, "volunteer")),
                            st.k, FALSE)
        ELSE LoopState(st.m, Append(st.log, Ev("warn_format", 0, need_id, "need")), st.k, FALSE)

\* Variant of the loop body that notifies before it records
NeedItemNotifiesFirst(st, match_data, need_id, db, failAt, down) ==
    LET volunteer_id == match_data.id
        match_details == match_data.md
    IN  IF IsInt(volunteer_id) /\ IsStr(match_details)
        THEN IF GetVolunteer(db.volunteers, volunteer_id.v)
             THEN LET told == st.log \o SendMatchNotification(volunteer_id.v, need_id, down)
                  IN  IF CreateMatchRaises(db, volunteer_id.v, need_id, st.k + 1, failAt)
                      THEN LoopState(st.m, Append(told, Ev("raise", volunteer_id.v, need_id, "create_match")),
                                     st.k + 1, TRUE)
                      ELSE LoopState(CreateMatch(st.m, volunteer_id.v, need_id, match_details.s),
                                     Append(told, Ev("record", volunteer_id.v, need_id, match_details.s)),
                                     st.k + 1, FALSE)
             ELSE LoopState(st.m, Append(st.log, Ev("warn_nonexistent", volunteer_id.v, need_id, "volunteer")),
                            st.k, FALSE)
        ELSE LoopState(st.m, Append(st.log, Ev("warn_format", 0, need_id, "need")), st.k, FALSE)

\* analyze_and_match, one match_data of the loop (lines 160-173)
NeedItem(st, match_data, need_id, db, failAt, down) ==
    LET volunteer_id == match_data.id
        match_details == match_data.md
    IN  IF IsInt(volunteer_id) /\ IsStr(match_details)
        THEN IF GetVolunteer(db.volunteers, volunteer_id.v)
             THEN IF CreateMatchRaises(db, volunteer_id.v, need_id, st.k + 1, failAt)
                  THEN LoopState(st.m, Append(st.log, Ev("raise", volunteer_id.v, need_id, "create_match")),
                                 st.k + 1, TRUE)
                  ELSE LoopState(CreateMatch(st.m, volunteer_id.v, need_id, match_details.s),
                                 Append(st.log, Ev("record", volunteer_id.v, need_id, match_details.s))
                                     \o SendMatchNotification(volunteer_id.v, need_id, down),
                                 st.k + 1, FALSE)
             ELSE LoopState(st.m, Append(st.log, Ev("warn_nonexistent", volunteer_id.v, need_id, "volunteer")),
                            st.k, FALSE)
        ELSE LoopState(st.m, Append(st.log, Ev("warn_format", 0, need_id, "need")), st.k, FALSE)

\* Variant of the loop that leaves at the first item of invalid format
NeedLoopBreaks(st, items, need_id, db, failAt, down) ==
    LET step[k \in 0..Len(items)] ==
            IF k = 0 THEN [st |-> st, open |-> TRUE]
            ELSE LET before == step[k - 1]
                     ok == IsInt(items[k].id) /\ IsStr(items[k].md)
                 IN  IF ~before.open \/ before.st.raised \/ ~ok
                     THEN [st |-> before.st, open |-> FALSE]
                     ELSE [st |-> NeedItem(before.st, items[k], need_id, db, failAt, down), open |-> TRUE]
    IN  step[Len(items)].st

\* Variant of the loop that ends, without an error, after an item for which
\* a send failed
NeedLoopStopsOnMailError(st, items, need_id, db, failAt, down) ==
    LET step[k \in 0..Len(items)] ==
            IF k = 0 THEN [st |-> st, open |-> TRUE]
            ELSE LET before == step[k - 1]
                 IN  IF ~before.open \/ before.st.raised
                     THEN [st |-> before.st, open |-> FALSE]
                     ELSE LET after == NeedItem(before.st, items[k], need_id, db, failAt, down)
                          IN  [st |-> after,
                               open |-> after.log[Len(after.log)].ev # "email_error"]
    IN  step[Len(items)].st

RECURSIVE NeedLoop(_, _, _, _, _, _)
\* analyze_and_match, `for match_data in gemini_response` (line 159); a raise
\* leaves the loop
NeedLoop(st, items, need_id, db, failAt, down) ==
    IF items = <<>> \/ st.raised THEN st
    ELSE NeedLoop(NeedItem(st, Head(items), need_id, db, failAt, down),
                  Tail(items), need_id, db, failAt, down)

\* analyze_and_match after the awaited call returned (lines 158-175)
AnalyzeAndMatchRest(m, log, resp, need_id, db, failAt, down) ==
    IF Truthy(resp)
    THEN NeedLoop(LoopState(m, log, 0, FALSE), resp.items, need_id, db, failAt, down)
    ELSE LoopState(m, Append(log, Ev("no_valid_matches", 0, need_id, "need")), 0, FALSE)

\* analyze_volunteer_against_all_needs, one match_data (lines 229-246)
VolunteerItem(st, match_data, volunteer_id, db, failAt, down) ==
    LET need_id == match_data.id
        match_details == match_data.md
    IN  IF IsInt(need_id) /\ IsStr(match_details)
        THEN IF GetNeed(db.needs, need_id.v)
             THEN IF CreateMatchRaises(db, volunteer_id, need_id.v, st.k + 1, failAt)
                  THEN LoopState(st.m, Append(st.log, Ev("raise", volunteer_id, need_id.v, "create_match")),
                                 st.k + 1, TRUE)
                  ELSE LoopState(CreateMatch(st.m, volunteer_id, need_id.v, match_details.s),
                                 Append(st.log, Ev("record", volunteer_id, need_id.v, match_details.s))
                                     \o SendMatchNotification(volunteer_id, need_id.v, down),
                                 st.k + 1, FALSE)
             ELSE LoopState(st.m, Append(st.log, Ev("warn_nonexistent", volunteer_id, need_id.v, "need")),
                            st.k, FALSE)
        ELSE LoopState(st.m, Append(st.log, Ev("warn_format", volunteer_id, 0, "volunteer")), st.k, FALSE)

RECURSIVE VolunteerLoop(_, _, _, _, _, _)
\* analyze_volunteer_against_all_needs, the loop (line 228)
VolunteerLoop(st, items, volunteer_id, db, failAt, down) ==
    IF items = <<>> \/ st.raised THEN st
    ELSE VolunteerLoop(VolunteerItem(st, Head(items), volunteer_id, db, failAt, down),
                       Tail(items), volunteer_id, db, failAt, down)

\* analyze_volunteer_against_all_needs after the awaited call (lines 227-248)
AnalyzeVolunteerRest(m, log, resp, volunteer_id, db, failAt, down) ==
    IF Truthy(resp)
    THEN VolunteerLoop(LoopState(m, log, 0, FALSE), resp.items, volunteer_id, db, failAt, down)
    ELSE LoopState(m, Append(log, Ev("no_valid_matches", volunteer_id, 0, "volunteer")), 0, FALSE)

\* ------------------------------------------------------------------ state
\* The session a run works on: a trigger opens its own with next(get_db())
\* and closes it in its finally; the engine called directly works on the
\* session its caller constructed it with and closes nothing.
SessionOf(op) ==
    IF op \in {"trigger_need_matching", "trigger_volunteer_matching"} THEN "own" ELSE "caller"

\* A background task: idle, or suspended at the awaited Gemini call ("llm").
\* `cands` is the list the engine was given and `cleared` the rows its first
\* statement deleted.  `alone` says that no other run has been suspended at
\* the same time as this one, `twin` that a run of the same pivot has.  `prev`
\* is history, kept where an observer is
\* on: whether the operation just before this run was a run of the same pivot
\* with the same list that returned normally, and the answer that run had.
NoPrev == [same |-> FALSE, resp |-> NoneResponse]

IdleRun ==
    [pc |-> "idle", kind |-> "none", pivot |-> 0, cands |-> {}, cleared |-> EmptyBag, alone |-> TRUE, twin |-> FALSE,
     session |-> "none", prev |-> NoPrev]

Suspended(r) == run[r].pc = "llm"

\* Tasks are taken in order: the names carry no meaning.
FirstIdle(r) == run[r].pc = "idle" /\ (r = "t2" => Suspended("t1"))

\* What the operation executed last was and left behind: its return value
\* (`ret`), the tasks it gave to BackgroundTasks.add_task, the match rows it
\* deleted (`cleared`), the session it worked on when it was a trigger or the
\* end of a run and whether that session is closed now (`session`, `closed`),
\* and for the end of a matching run its pivot, the list
\* it was given, the answer of _call_gemini_api, the ids of the other table
\* when the loop ran, and everything it printed, recorded and sent, in order;
\* `again` says that the run repeated the run just before it, answer included.
Last(op, id, ret, tasks) ==
    [op |-> op, id |-> id, ret |-> ret, tasks |-> tasks, kind |-> "none", cands |-> {},
     cleared |-> EmptyBag, alone |-> TRUE, twin |-> FALSE, again |-> FALSE, resp |-> NoneResponse, seen |-> {},
     log |-> <<>>, session |-> "none", closed |-> FALSE]

RunEnded(op, rec, ret, resp, seen, log) ==
    [op |-> op, id |-> rec.pivot, ret |-> ret, tasks |-> <<>>, kind |-> rec.kind, cands |-> rec.cands,
     cleared |-> rec.cleared, alone |-> rec.alone, twin |-> rec.twin, again |-> rec.prev.same /\ rec.prev.resp = resp,
     resp |-> resp, seen |-> seen, log |-> log, session |-> rec.session, closed |-> rec.session = "own"]

\* The rows a run recorded, from what it logged
RecordIndexes(log) == {i \in DOMAIN log : log[i].ev = "record"}

RowAt(log, i) == Row(log[i].v, log[i].n, log[i].s)

Recorded(log) ==
    [row \in {RowAt(log, i) : i \in RecordIndexes(log)} |->
        Cardinality({i \in RecordIndexes(log) : RowAt(log, i) = row})]

\* History.  An observer remembers one run that returned normally: its pivot
\* and the rows it recorded.  When a run returns the observer takes it or
\* keeps the one it has, but a later run of the remembered pivot always
\* replaces it: a valid `kept` is the most recent completed run of its pivot.
\* `crossed` says that a run of the other direction has begun since.
NoKept(on) ==
    [on |-> on, valid |-> FALSE, kind |-> "none", pivot |-> 0, rows |-> EmptyBag, crossed |-> FALSE]

KeptAtStart(k, kind) ==
    IF k.on /\ k.valid /\ k.kind # kind THEN [k EXCEPT !.crossed = TRUE] ELSE k

KeptAtEnd(k, rec, ret, rows) ==
    LET same == k.valid /\ k.kind = rec.kind /\ k.pivot = rec.pivot
        new == [on |-> TRUE, valid |-> TRUE, kind |-> rec.kind, pivot |-> rec.pivot, rows |-> rows,
                crossed |-> FALSE]
    IN  IF ~k.on THEN {k}
        ELSE IF ret # "done" THEN {IF same THEN NoKept(TRUE) ELSE k}
        ELSE IF same THEN {new}
        ELSE {new, k}

\* Whether the operation executed last was a run of this pivot with this list
\* that returned normally, for an observer that is on
PrevRun(kind, pivot, cands) ==
    IF /\ kept.on
       /\ last.kind = kind /\ last.id = pivot /\ last.cands = cands /\ last.ret = "done"
       /\ last.log # <<>> /\ Head(last.log).ev = "clear"
    THEN [same |-> TRUE, resp |-> last.resp]
    ELSE NoPrev

Init ==
    /\ volunteers = {}
    /\ needs = << >>
    /\ nextVolunteerId = 1
    /\ nextNeedId = 1
    /\ matches = EmptyBag
    /\ fkEnforced \in BOOLEAN
    /\ run = [r \in Runs |-> IdleRun]
    /\ last = Last("init", 0, "-", <<>>)
    /\ kept = NoKept(FALSE)

\* ------------------------------------------------------- crud_volunteer
\* create_volunteer: the INSERT fails on the unique email (IntegrityError,
\* rollback, None); otherwise the row is committed and the call
\* trigger_volunteer_matching(db, db_volunteer) follows, which gives two
\* arguments to a function of one: TypeError, not caught by the handler.
CreateVolunteer(emailInUse) ==
    /\ nextVolunteerId <= MaxVolunteers
    /\ emailInUse => volunteers # {}
    /\ IF emailInUse
       THEN /\ UNCHANGED <<volunteers, nextVolunteerId>>
            /\ last' = Last("create_volunteer", 0, "None", <<>>)
       ELSE /\ volunteers' = volunteers \cup {nextVolunteerId}
            /\ nextVolunteerId' = nextVolunteerId + 1
            /\ last' = Last("create_volunteer", nextVolunteerId, "raised", <<>>)
    /\ UNCHANGED <<needs, nextNeedId, matches, fkEnforced, run, kept>>

\* update_volunteer: None when there is no such row; otherwise commit, then
\* the same two-argument call of trigger_volunteer_matching
UpdateVolunteer(volunteer_id) ==
    /\ last' = Last("update_volunteer", volunteer_id,
                    IF volunteer_id \in volunteers THEN "raised" ELSE "None", <<>>)
    /\ UNCHANGED <<volunteers, needs, nextVolunteerId, nextNeedId, matches, fkEnforced, run, kept>>

\* delete_volunteer: db.delete cascades to volunteer_matches (cascade="all,
\* delete-orphan"), commit, then delete_matches_for_volunteer.  Needs owned by
\* the volunteer keep their owner_id: a database that enforces the FOREIGN KEY
\* refuses the DELETE and the commit raises.
DeleteVolunteer(volunteer_id) ==
    /\ IF volunteer_id \notin volunteers
       THEN /\ UNCHANGED <<volunteers, matches>>
            /\ last' = Last("delete_volunteer", volunteer_id, "False", <<>>)
       ELSE IF fkEnforced /\ \E n \in DOMAIN needs : needs[n] = volunteer_id
       THEN /\ UNCHANGED <<volunteers, matches>>
            /\ last' = Last("delete_volunteer", volunteer_id, "raised", <<>>)
       ELSE /\ volunteers' = volunteers \ {volunteer_id}
            /\ matches' = DeleteMatchesForVolunteer(matches, volunteer_id)
            /\ last' = [Last("delete_volunteer", volunteer_id, "True", <<>>)
                           EXCEPT !.cleared = GetMatchesForVolunteer(matches, volunteer_id)]
    /\ UNCHANGED <<needs, nextVolunteerId, nextNeedId, fkEnforced, run, kept>>

\* ------------------------------------------------------------ crud_need
\* create_need: add, commit, refresh, add_task(trigger_need_matching, id);
\* IntegrityError (owner_id without a row, where the database checks it):
\* rollback and None
CreateNeed(owner_id) ==
    /\ nextNeedId <= MaxNeeds
    /\ IF fkEnforced /\ owner_id \notin volunteers
       THEN /\ UNCHANGED <<needs, nextNeedId>>
            /\ last' = Last("create_need", 0, "None", <<>>)
       ELSE /\ needs' = [n \in DOMAIN needs \cup {nextNeedId} |->
                            IF n = nextNeedId THEN owner_id ELSE needs[n]]
            /\ nextNeedId' = nextNeedId + 1
            /\ last' = Last("create_need", nextNeedId, "need", <<nextNeedId>>)
    /\ UNCHANGED <<volunteers, nextVolunteerId, matches, fkEnforced, run, kept>>

\* Variant of update_need that schedules the run before it looks the need up
UpdateNeedSchedulesFirst(need_id, owner_id) ==
    /\ IF need_id \in DOMAIN needs /\ needs[need_id] = owner_id
       THEN last' = Last("update_need", need_id, "need", <<need_id>>)
       ELSE last' = Last("update_need", need_id, "None", <<need_id>>)
    /\ UNCHANGED <<volunteers, needs, nextVolunteerId, nextNeedId, matches, fkEnforced, run, kept>>

\* update_need: the row with that id and that owner_id, or None
UpdateNeed(need_id, owner_id) ==
    /\ IF need_id \in DOMAIN needs /\ needs[need_id] = owner_id
       THEN last' = Last("update_need", need_id, "need", <<need_id>>)
       ELSE last' = Last("update_need", need_id, "None", <<>>)
    /\ UNCHANGED <<volunteers, needs, nextVolunteerId, nextNeedId, matches, fkEnforced, run, kept>>

\* Variant of delete_need whose query does not filter on owner_id
DeleteNeedAnyOwner(need_id, owner_id) ==
    /\ IF need_id \in DOMAIN needs
       THEN /\ needs' = [n \in DOMAIN needs \ {need_id} |-> needs[n]]
            /\ matches' = DeleteMatchesForNeed(matches, need_id)
            /\ last' = [Last("delete_need", need_id, "True", <<>>)
                           EXCEPT !.cleared = GetMatchesForNeed(matches, need_id)]
       ELSE /\ UNCHANGED <<needs, matches>>
            /\ last' = Last("delete_need", need_id, "False", <<>>)
    /\ UNCHANGED <<volunteers, nextVolunteerId, nextNeedId, fkEnforced, run, kept>>

\* Variant of delete_need that leaves the need's match rows
DeleteNeedKeepsMatches(need_id, owner_id) ==
    /\ IF need_id \in DOMAIN needs /\ needs[need_id] = owner_id
       THEN /\ needs' = [n \in DOMAIN needs \ {need_id} |-> needs[n]]
            /\ matches' = matches
            /\ last' = [Last("delete_need", need_id, "True", <<>>)
                           EXCEPT !.cleared = GetMatchesForNeed(matches, need_id)]
       ELSE /\ UNCHANGED <<needs, matches>>
            /\ last' = Last("delete_need", need_id, "False", <<>>)
    /\ UNCHANGED <<volunteers, nextVolunteerId, nextNeedId, fkEnforced, run, kept>>

\* delete_need: the row with that id and that owner_id; db.delete cascades to
\* need_matches, commit, then delete_matches_for_need
DeleteNeed(need_id, owner_id) ==
    /\ IF need_id \in DOMAIN needs /\ needs[need_id] = owner_id
       THEN /\ needs' = [n \in DOMAIN needs \ {need_id} |-> needs[n]]
            /\ matches' = DeleteMatchesForNeed(matches, need_id)
            /\ last' = [Last("delete_need", need_id, "True", <<>>)
                           EXCEPT !.cleared = GetMatchesForNeed(matches, need_id)]
       ELSE /\ UNCHANGED <<needs, matches>>
            /\ last' = Last("delete_need", need_id, "False", <<>>)
    /\ UNCHANGED <<volunteers, nextVolunteerId, nextNeedId, fkEnforced, run, kept>>

\* ------------------------------------------------------ matching runs
\* A run that suspends: every run suspended at that moment overlaps it.
Begin(r, rec) ==
    LET same(q) == Suspended(q) /\ run[q].kind = rec.kind /\ run[q].pivot = rec.pivot
    IN  [q \in Runs |->
            IF q = r THEN [rec EXCEPT !.alone = \A o \in Runs \ {r} : ~Suspended(o),
                                      !.twin = \E o \in Runs \ {r} : same(o)]
            ELSE IF Suspended(q) THEN [run[q] EXCEPT !.alone = FALSE, !.twin = @ \/ same(q)]
            ELSE run[q]]

\* The rows of a pivot: its need_id or its volunteer_id, by direction
PivotRows(m, kind, pivot) ==
    IF kind = "need" THEN GetMatchesForNeed(m, pivot) ELSE GetMatchesForVolunteer(m, pivot)

\* Variant of analyze_and_match that does not delete the need's matches first
AnalyzeAndMatchStartKeeps(r, op, need_id, all_volunteers) ==
    LET rec == [pc |-> "idle", kind |-> "need", pivot |-> need_id, cands |-> all_volunteers,
                cleared |-> GetMatchesForNeed(matches, need_id), alone |-> TRUE, twin |-> FALSE,
                session |-> SessionOf(op), prev |-> PrevRun("need", need_id, all_volunteers)]
    IN  /\ matches' = matches
        /\ IF all_volunteers = {}
           THEN /\ run' = run
                /\ last' = RunEnded(op, rec, "done", NoneResponse, {},
                                    <<Ev("clear", 0, need_id, "need"), Ev("no_candidates", 0, need_id, "need")>>)
                /\ kept' \in KeptAtEnd(KeptAtStart(kept, "need"), rec, "done", EmptyBag)
           ELSE /\ run' = Begin(r, [rec EXCEPT !.pc = "llm"])
                /\ last' = Last(op, need_id, "suspended", <<>>)
                /\ kept' = KeptAtStart(kept, "need")

\* analyze_and_match up to the awaited call (lines 112-156): delete the need's
\* matches; with an empty list print and return, otherwise build the prompt
\* and suspend in _call_gemini_api.
AnalyzeAndMatchStart(r, op, need_id, all_volunteers) ==
    LET rec == [pc |-> "idle", kind |-> "need", pivot |-> need_id, cands |-> all_volunteers,
                cleared |-> GetMatchesForNeed(matches, need_id), alone |-> TRUE, twin |-> FALSE,
                session |-> SessionOf(op), prev |-> PrevRun("need", need_id, all_volunteers)]
    IN  /\ matches' = DeleteMatchesForNeed(matches, need_id)
        /\ IF all_volunteers = {}
           THEN /\ run' = run
                /\ last' = RunEnded(op, rec, "done", NoneResponse, {},
                                    <<Ev("clear", 0, need_id, "need"), Ev("no_candidates", 0, need_id, "need")>>)
                /\ kept' \in KeptAtEnd(KeptAtStart(kept, "need"), rec, "done", EmptyBag)
           ELSE /\ run' = Begin(r, [rec EXCEPT !.pc = "llm"])
                /\ last' = Last(op, need_id, "suspended", <<>>)
                /\ kept' = KeptAtStart(kept, "need")

\* Variant of analyze_volunteer_against_all_needs that never deletes the
\* volunteer's matches
AnalyzeVolunteerStartKeeps(r, op, volunteer_id, all_needs) ==
    LET rec == [pc |-> "idle", kind |-> "volunteer", pivot |-> volunteer_id, cands |-> all_needs,
                cleared |-> GetMatchesForVolunteer(matches, volunteer_id), alone |-> TRUE, twin |-> FALSE,
                session |-> SessionOf(op), prev |-> PrevRun("volunteer", volunteer_id, all_needs)]
    IN  /\ matches' = matches
        /\ IF all_needs = {}
           THEN /\ run' = run
                /\ last' = RunEnded(op, rec, "done", NoneResponse, {},
                                    <<Ev("clear", volunteer_id, 0, "volunteer"),
                                      Ev("no_candidates", volunteer_id, 0, "volunteer")>>)
                /\ kept' \in KeptAtEnd(KeptAtStart(kept, "volunteer"), rec, "done", EmptyBag)
           ELSE /\ run' = Begin(r, [rec EXCEPT !.pc = "llm"])
                /\ last' = Last(op, volunteer_id, "suspended", <<>>)
                /\ kept' = KeptAtStart(kept, "volunteer")

\* Variant of analyze_volunteer_against_all_needs that deletes the volunteer's
\* matches only once Gemini is about to be called: an empty list returns first
AnalyzeVolunteerStartLate(r, op, volunteer_id, all_needs) ==
    LET rec == [pc |-> "idle", kind |-> "volunteer", pivot |-> volunteer_id, cands |-> all_needs,
                cleared |-> GetMatchesForVolunteer(matches, volunteer_id), alone |-> TRUE, twin |-> FALSE,
                session |-> SessionOf(op), prev |-> PrevRun("volunteer", volunteer_id, all_needs)]
    IN  IF all_needs = {}
        THEN /\ matches' = matches
             /\ run' = run
             /\ last' = RunEnded(op, rec, "done", NoneResponse, {},
                                 <<Ev("clear", volunteer_id, 0, "volunteer"),
                                   Ev("no_candidates", volunteer_id, 0, "volunteer")>>)
             /\ kept' \in KeptAtEnd(KeptAtStart(kept, "volunteer"), rec, "done", EmptyBag)
        ELSE /\ matches' = DeleteMatchesForVolunteer(matches, volunteer_id)
             /\ run' = Begin(r, [rec EXCEPT !.pc = "llm"])
             /\ last' = Last(op, volunteer_id, "suspended", <<>>)
             /\ kept' = KeptAtStart(kept, "volunteer")

\* analyze_volunteer_against_all_needs up to the awaited call (lines 177-225)
AnalyzeVolunteerStart(r, op, volunteer_id, all_needs) ==
    LET rec == [pc |-> "idle", kind |-> "volunteer", pivot |-> volunteer_id, cands |-> all_needs,
                cleared |-> GetMatchesForVolunteer(matches, volunteer_id), alone |-> TRUE, twin |-> FALSE,
                session |-> SessionOf(op), prev |-> PrevRun("volunteer", volunteer_id, all_needs)]
    IN  /\ matches' = DeleteMatchesForVolunteer(matches, volunteer_id)
        /\ IF all_needs = {}
           THEN /\ run' = run
                /\ last' = RunEnded(op, rec, "done", NoneResponse, {},
                                    <<Ev("clear", volunteer_id, 0, "volunteer"),
                                      Ev("no_candidates", volunteer_id, 0, "volunteer")>>)
                /\ kept' \in KeptAtEnd(KeptAtStart(kept, "volunteer"), rec, "done", EmptyBag)
           ELSE /\ run' = Begin(r, [rec EXCEPT !.pc = "llm"])
                /\ last' = Last(op, volunteer_id, "suspended", <<>>)
                /\ kept' = KeptAtStart(kept, "volunteer")

\* MatchingService.analyze_and_match called with a need of the database and a
\* list of its volunteers (the unit tests call the engine like this)
AnalyzeAndMatch(r, need_id, all_volunteers) ==
    /\ FirstIdle(r)
    /\ GetNeed(needs, need_id)
    /\ all_volunteers \subseteq volunteers
    /\ AnalyzeAndMatchStart(r, "analyze_and_match", need_id, all_volunteers)
    /\ UNCHANGED <<volunteers, needs, nextVolunteerId, nextNeedId, fkEnforced>>

\* MatchingService.analyze_volunteer_against_all_needs, called the same way
AnalyzeVolunteerAgainstAllNeeds(r, volunteer_id, all_needs) ==
    /\ FirstIdle(r)
    /\ GetVolunteer(volunteers, volunteer_id)
    /\ all_needs \subseteq DOMAIN needs
    /\ AnalyzeVolunteerStart(r, "analyze_volunteer_against_all_needs", volunteer_id, all_needs)
    /\ UNCHANGED <<volunteers, needs, nextVolunteerId, nextNeedId, fkEnforced>>

\* Variant of trigger_need_matching that calls the engine without looking the
\* need up
TriggerNeedMatchingBlind(r, need_id) ==
    /\ FirstIdle(r)
    /\ AnalyzeAndMatchStart(r, "trigger_need_matching", need_id, GetVolunteers(volunteers))
    /\ UNCHANGED <<volunteers, needs, nextVolunteerId, nextNeedId, fkEnforced>>

\* trigger_need_matching: a session of its own, get_need; no row: print and
\* return; otherwise get_volunteers and analyze_and_match
TriggerNeedMatching(r, need_id) ==
    /\ FirstIdle(r)
    /\ IF GetNeed(needs, need_id)
       THEN AnalyzeAndMatchStart(r, "trigger_need_matching", need_id, GetVolunteers(volunteers))
       ELSE /\ last' = [Last("trigger_need_matching", need_id, "done", <<>>)
                           EXCEPT !.kind = "need", !.log = <<Ev("warn_not_found", 0, need_id, "need")>>,
                                  !.session = "own", !.closed = TRUE]
            /\ UNCHANGED <<matches, run, kept>>
    /\ UNCHANGED <<volunteers, needs, nextVolunteerId, nextNeedId, fkEnforced>>

\* trigger_volunteer_matching: the same for a volunteer, with get_needs
TriggerVolunteerMatching(r, volunteer_id) ==
    /\ FirstIdle(r)
    /\ IF GetVolunteer(volunteers, volunteer_id)
       THEN AnalyzeVolunteerStart(r, "trigger_volunteer_matching", volunteer_id, GetNeeds(needs))
       ELSE /\ last' = [Last("trigger_volunteer_matching", volunteer_id, "done", <<>>)
                           EXCEPT !.kind = "volunteer",
                                  !.log = <<Ev("warn_not_found", volunteer_id, 0, "volunteer")>>,
                                  !.session = "own", !.closed = TRUE]
            /\ UNCHANGED <<matches, run, kept>>
    /\ UNCHANGED <<volunteers, needs, nextVolunteerId, nextNeedId, fkEnforced>>

\* Variant of the run that sends its request again when _call_gemini_api
\* comes back with None
GeminiReturnsRetries(r, o, failAt, down) ==
    /\ Suspended(r)
    /\ LET rec == run[r]
           resp == CallGeminiApi(o)
           db == Db(volunteers, needs, fkEnforced)
           log == IF rec.kind = "need"
                  THEN <<Ev("clear", 0, rec.pivot, "need"), Ev("llm_call", 0, rec.pivot, "need")>>
                  ELSE <<Ev("clear", rec.pivot, 0, "volunteer"), Ev("llm_call", rec.pivot, 0, "volunteer")>>
           st == IF rec.kind = "need"
                 THEN AnalyzeAndMatchRest(matches, log, resp, rec.pivot, db, failAt, down)
                 ELSE AnalyzeVolunteerRest(matches, log, resp, rec.pivot, db, failAt, down)
           ret == IF st.raised THEN "raised" ELSE "done"
       IN  IF resp.none
           THEN /\ last' = RunEnded("gemini_returns", rec, "suspended", resp,
                                    IF rec.kind = "need" THEN volunteers ELSE DOMAIN needs, log)
                /\ UNCHANGED <<matches, run, kept>>
           ELSE /\ matches' = st.m
                /\ run' = [run EXCEPT ![r] = IdleRun]
                /\ last' = RunEnded("gemini_returns", rec, ret, resp,
                                    IF rec.kind = "need" THEN volunteers ELSE DOMAIN needs, st.log)
                /\ kept' \in KeptAtEnd(kept, rec, ret, Recorded(st.log))
    /\ UNCHANGED <<volunteers, needs, nextVolunteerId, nextNeedId, fkEnforced>>

\* Variant of the run whose trigger closes its session after the engine
\* returned, without a finally: an exception of the engine skips the close
GeminiReturnsLeaks(r, o, failAt, down) ==
    /\ Suspended(r)
    /\ LET rec == run[r]
           resp == CallGeminiApi(o)
           db == Db(volunteers, needs, fkEnforced)
           log == IF rec.kind = "need"
                  THEN <<Ev("clear", 0, rec.pivot, "need"), Ev("llm_call", 0, rec.pivot, "need")>>
                  ELSE <<Ev("clear", rec.pivot, 0, "volunteer"), Ev("llm_call", rec.pivot, 0, "volunteer")>>
           st == IF rec.kind = "need"
                 THEN AnalyzeAndMatchRest(matches, log, resp, rec.pivot, db, failAt, down)
                 ELSE AnalyzeVolunteerRest(matches, log, resp, rec.pivot, db, failAt, down)
           ret == IF st.raised THEN "raised" ELSE "done"
       IN  /\ matches' = st.m
           /\ run' = [run EXCEPT ![r] = IdleRun]
           /\ last' = [RunEnded("gemini_returns", rec, ret, resp,
                                IF rec.kind = "need" THEN volunteers ELSE DOMAIN needs, st.log)
                           EXCEPT !.closed = @ /\ ~st.raised]
           /\ kept' \in KeptAtEnd(kept, rec, ret, Recorded(st.log))
    /\ UNCHANGED <<volunteers, needs, nextVolunteerId, nextNeedId, fkEnforced>>

\* Variant of the run that resolves the ids of the answer against the list of
\* candidates it was given instead of the tables
GeminiReturnsCandidatesOnly(r, o, failAt, down) ==
    /\ Suspended(r)
    /\ LET rec == run[r]
           resp == CallGeminiApi(o)
           db == IF rec.kind = "need"
                 THEN Db(volunteers \cap rec.cands, needs, fkEnforced)
                 ELSE Db(volunteers, [n \in DOMAIN needs \cap rec.cands |-> needs[n]], fkEnforced)
           log == IF rec.kind = "need"
                  THEN <<Ev("clear", 0, rec.pivot, "need"), Ev("llm_call", 0, rec.pivot, "need")>>
                  ELSE <<Ev("clear", rec.pivot, 0, "volunteer"), Ev("llm_call", rec.pivot, 0, "volunteer")>>
           st == IF rec.kind = "need"
                 THEN AnalyzeAndMatchRest(matches, log, resp, rec.pivot, db, failAt, down)
                 ELSE AnalyzeVolunteerRest(matches, log, resp, rec.pivot, db, failAt, down)
           ret == IF st.raised THEN "raised" ELSE "done"
       IN  /\ matches' = st.m
           /\ run' = [run EXCEPT ![r] = IdleRun]
           /\ last' = RunEnded("gemini_returns", rec, ret, resp,
                               IF rec.kind = "need" THEN volunteers ELSE DOMAIN needs, st.log)
           /\ kept' \in KeptAtEnd(kept, rec, ret, Recorded(st.log))
    /\ UNCHANGED <<volunteers, needs, nextVolunteerId, nextNeedId, fkEnforced>>

\* The awaited Gemini call of run r comes back with outcome o, and the run
\* goes to its end: nothing after that await suspends (sg.send blocks).  The
\* loop reads the tables as they are now.
GeminiReturns(r, o, failAt, down) ==
    /\ Suspended(r)
    /\ LET rec == run[r]
           resp == CallGeminiApi(o)
           db == Db(volunteers, needs, fkEnforced)
           log == IF rec.kind = "need"
                  THEN <<Ev("clear", 0, rec.pivot, "need"), Ev("llm_call", 0, rec.pivot, "need")>>
                  ELSE <<Ev("clear", rec.pivot, 0, "volunteer"), Ev("llm_call", rec.pivot, 0, "volunteer")>>
           st == IF rec.kind = "need"
                 THEN AnalyzeAndMatchRest(matches, log, resp, rec.pivot, db, failAt, down)
                 ELSE AnalyzeVolunteerRest(matches, log, resp, rec.pivot, db, failAt, down)
           ret == IF st.raised THEN "raised" ELSE "done"
       IN  /\ matches' = st.m
           /\ run' = [run EXCEPT ![r] = IdleRun]
           /\ last' = RunEnded("gemini_returns", rec, ret, resp,
                               IF rec.kind = "need" THEN volunteers ELSE DOMAIN needs, st.log)
           /\ kept' \in KeptAtEnd(kept, rec, ret, Recorded(st.log))
    /\ UNCHANGED <<volunteers, needs, nextVolunteerId, nextNeedId, fkEnforced>>

\* ------------------------------------------------------- specifications
\* The service: the six repository operations, and one background task at a
\* time running a trigger to its end, Gemini answering with well-formed items.
Crud ==
    \/ \E e \in BOOLEAN : CreateVolunteer(e)
    \/ \E v \in VolunteerIds : UpdateVolunteer(v)
    \/ \E v \in VolunteerIds : DeleteVolunteer(v)
    \/ \E o \in VolunteerIds : CreateNeed(o)
    \/ \E n \in NeedIds, o \in VolunteerIds : UpdateNeed(n, o)
    \/ \E n \in NeedIds, o \in VolunteerIds : DeleteNeed(n, o)

Trigger ==
    \/ \E n \in NeedIds : TriggerNeedMatching("t1", n)
    \/ \E v \in VolunteerIds : TriggerVolunteerMatching("t1", v)

Next ==
    \/ Crud
    \/ Trigger
    \/ \E o \in Failures \cup Answers(GoodItems) : GeminiReturns("t1", o, 0, {})

Spec == Init /\ [][Next]_vars

\* A database that does not enforce FOREIGN KEY (SQLite as the tests bind
\* it), holding any volunteers and needs the repository operations can leave.
Populated ==
    /\ volunteers \in SUBSET VolunteerIds
    /\ needs \in UNION {[d -> {1}] : d \in SUBSET NeedIds}
    /\ nextVolunteerId = MaxVolunteers + 1
    /\ nextNeedId = MaxNeeds + 1
    /\ matches = EmptyBag
    /\ fkEnforced = FALSE
    /\ run = [r \in Runs |-> IdleRun]
    /\ last = Last("init", 0, "-", <<>>)

\* The engine alone, as the unit tests drive it: one call after the other on a
\* fixed population, each with any list of candidates, and an observer
\* remembering earlier runs.
InitEngine == Populated /\ kept = NoKept(TRUE)

NextEngine ==
    \/ \E n \in NeedIds, c \in SUBSET VolunteerIds : AnalyzeAndMatch("t1", n, c)
    \/ \E v \in VolunteerIds, c \in SUBSET NeedIds : AnalyzeVolunteerAgainstAllNeeds("t1", v, c)
    \/ \E o \in Failures \cup Answers(GoodItems) : GeminiReturns("t1", o, 0, {})

SpecEngine == InitEngine /\ [][NextEngine]_vars

\* One triggered run on a fixed population, with everything Gemini, the
\* store and the mail provider can do to it.
InitAnswers == Populated /\ kept = NoKept(FALSE)

NextAnswers ==
    \/ last.op = "init" /\ Trigger
    \/ \E o \in Failures \cup Answers(GoodItems \cup OddItems), failAt \in 0..MaxResp, down \in SUBSET Recipients :
           GeminiReturns("t1", o, failAt, down)

SpecAnswers == InitAnswers /\ [][NextAnswers]_vars

\* ------------------------------------------------------------ properties
\* The operation executed last was the end of a run of the engine
EngineRan == last.log # <<>> /\ Head(last.log).ev = "clear"

RunReturned == EngineRan /\ last.ret = "done"

\* ... and that run had called Gemini
LlmAnswered == last.op = "gemini_returns"

NoRunInProgress == \A r \in Runs : ~Suspended(r)

\* The id an event or a row has on the side that is not the pivot's
Counterpart(x, kind) == IF kind = "need" THEN x.v ELSE x.n

VolunteersOf(m) == {row.volunteer_id : row \in BagToSet(m)}

NeedsOf(m) == {row.need_id : row \in BagToSet(m)}

RowCounterpart(row, kind) == IF kind = "need" THEN row.volunteer_id ELSE row.need_id

CounterpartIds(m, kind) == IF kind = "need" THEN VolunteersOf(m) ELSE NeedsOf(m)

AcceptedIds(log, kind) == {Counterpart(log[i], kind) : i \in RecordIndexes(log)}

EventIndexes(log, evs) == {i \in DOMAIN log : log[i].ev \in evs}

\* isinstance(id, int) and isinstance(match_details, str), as a predicate on
\* the items of an answer
WellFormed(item) == item.id.t = "int" /\ item.md.t = "str"

Resolving(items, seen) == {i \in DOMAIN items : WellFormed(items[i]) /\ items[i].id.v \in seen}

C3_IdempotentOverwrite ==
    RunReturned /\ last.again => PivotRows(matches, last.kind, last.id) = last.cleared

\* the repeated run recorded rows
C3_Witness ==
    /\ RunReturned /\ last.again /\ LlmAnswered
    /\ last.cleared # EmptyBag
    /\ PivotRows(matches, last.kind, last.id) = last.cleared

\* C4: the pivot's rows are deleted before Gemini is called: while a run
\* waits for the answer alone, its pivot has no row; and when the call fails
\* (raises, no content, an empty array) the run returns normally, records
\* nothing and leaves the pivot without rows.
C4_ClearBeforeLlm ==
    /\ \A r \in Runs : Suspended(r) /\ run[r].alone
           => PivotRows(matches, run[r].kind, run[r].pivot) = EmptyBag
    /\ LlmAnswered /\ ~Truthy(last.resp) =>
           /\ last.ret = "done"
           /\ RecordIndexes(last.log) = {}
           /\ last.alone => PivotRows(matches, last.kind, last.id) = EmptyBag

\* the call failed for a pivot that had rows before the run
C4_Witness ==
    /\ LlmAnswered /\ last.resp.none /\ last.ret = "done"
    /\ last.cleared # EmptyBag
    /\ PivotRows(matches, last.kind, last.id) = EmptyBag

RowOf(kind, pivot, id, details) == IF kind = "need" THEN Row(id, pivot, details) ELSE Row(pivot, id, details)

C8_EmptyCandidates ==
    /\ \A r \in Runs : Suspended(r) => run[r].cands # {}
    /\ EngineRan /\ last.cands = {} =>
           /\ last.ret = "done"
           /\ ~LlmAnswered
           /\ EventIndexes(last.log, {"llm_call", "record", "email_sent", "email_error"}) = {}
           /\ PivotRows(matches, last.kind, last.id) = EmptyBag

\* the run with the empty list found rows of the pivot and deleted them
C8_Witness ==
    /\ EngineRan /\ last.cands = {} /\ last.ret = "done"
    /\ last.cleared # EmptyBag
    /\ PivotRows(matches, last.kind, last.id) = EmptyBag

\* C9: a delete of a volunteer or a need that succeeds leaves no match row
\* referencing the deleted row, and every other match row as it was.
C9_DeleteStep ==
    last'.op \in {"delete_volunteer", "delete_need"} /\ last'.ret = "True" =>
        \A row \in DOMAIN matches \cup DOMAIN matches' :
            IF (IF last'.op = "delete_need" THEN row.need_id ELSE row.volunteer_id) = last'.id
            THEN ~BagIn(row, matches')
            ELSE CopiesIn(row, matches') = CopiesIn(row, matches)

C9_CascadeDeletion == [][C9_DeleteStep]_vars

\* a need with match rows was deleted, and rows of other needs are still there
C9_Witness ==
    /\ last.op = "delete_need" /\ last.ret = "True"
    /\ last.cleared # EmptyBag
    /\ matches # EmptyBag
    /\ GetMatchesForNeed(matches, last.id) = EmptyBag

\* C10: a send that fails does not stop the run: after every recorded row the
\* volunteer's message and then the contact's are both attempted, whichever
\* of them fails, the row stays, and the run raises only where the store does.
C10_NotificationIsolation ==
    LlmAnswered =>
        /\ \A i \in RecordIndexes(last.log) :
               /\ i + 2 <= Len(last.log)
               /\ last.log[i + 1].ev \in {"email_sent", "email_error"} /\ last.log[i + 1].s = "volunteer"
               /\ last.log[i + 2].ev \in {"email_sent", "email_error"} /\ last.log[i + 2].s = "contact"
               /\ BagIn(RowAt(last.log, i), matches)
        /\ last.ret = "raised" <=> EventIndexes(last.log, {"raise"}) # {}
        /\ \A i \in EventIndexes(last.log, {"raise"}) : last.log[i].s = "create_match"

\* the volunteer's message failed, the contact's was sent, a later item was
\* still recorded
C10_Witness ==
    /\ LlmAnswered /\ last.ret = "done"
    /\ \E i \in RecordIndexes(last.log) :
           /\ last.log[i + 1].ev = "email_error"
           /\ last.log[i + 2].ev = "email_sent"
           /\ \E j \in RecordIndexes(last.log) : j > i
    /\ BagSize(matches) = 2

\* C11: a create or an update of a need or of a volunteer returns its result
\* without running the matching: it never fails because of the matching
\* pipeline, and it leaves the matching to a scheduled task.
C11_FireAndForget ==
    last.op \in {"create_need", "update_need", "create_volunteer", "update_volunteer"} =>
        /\ last.ret # "raised"
        /\ last.ret # "None" => last.tasks = <<last.id>>

\* C12: a trigger for an id that has no row is a no-op: the engine is not
\* called and Gemini is not asked (no run begins), no match row is deleted or
\* created, nothing is sent, one warning naming the id is printed and the
\* trigger returns normally.
C12_NotFoundStep ==
    LET need == last'.op = "trigger_need_matching" /\ ~GetNeed(needs, last'.id)
        volunteer == last'.op = "trigger_volunteer_matching" /\ ~GetVolunteer(volunteers, last'.id)
    IN  need \/ volunteer =>
            /\ matches' = matches
            /\ run' = run
            /\ last'.ret = "done"
            /\ last'.log = <<IF need THEN Ev("warn_not_found", 0, last'.id, "need")
                             ELSE Ev("warn_not_found", last'.id, 0, "volunteer")>>

C12_TriggerNotFound == [][C12_NotFoundStep]_vars

\* a trigger found no need for its id while the table of matches had rows
C12_Witness ==
    /\ last.op = "trigger_need_matching" /\ last.ret = "done"
    /\ ~GetNeed(needs, last.id)
    /\ last.log = <<Ev("warn_not_found", 0, last.id, "need")>>
    /\ volunteers # {}
    /\ matches # EmptyBag

\* Two background tasks on a fixed population: a trigger can begin while
\* another run waits for Gemini, and the answers come back in any order.
\* Gemini fails or names at most one id.
InitTwo == Populated /\ kept = NoKept(FALSE)

ShortAnswers == {[kind |-> "json", items |-> a] : a \in SeqsUpTo(GoodItems, 1)}

NextTwo ==
    \/ \E r \in Runs, n \in NeedIds : TriggerNeedMatching(r, n)
    \/ \E r \in Runs, v \in VolunteerIds : TriggerVolunteerMatching(r, v)
    \/ \E r \in Runs, o \in Failures \cup ShortAnswers : GeminiReturns(r, o, 0, {})

SpecTwo == InitTwo /\ [][NextTwo]_vars

ListedSizes == {0, 1, DefaultLimit, DefaultLimit + ExtraRows}

InitListing ==
    /\ volunteers \in {1..k : k \in ListedSizes}
    /\ needs \in {[n \in 1..k |-> 1] : k \in ListedSizes}
    /\ nextVolunteerId = DefaultLimit + ExtraRows + 1
    /\ nextNeedId = DefaultLimit + ExtraRows + 1
    /\ matches = EmptyBag
    /\ fkEnforced = FALSE
    /\ run = [r \in Runs |-> IdleRun]
    /\ last = Last("init", 0, "-", <<>>)
    /\ kept = NoKept(FALSE)

NextListing ==
    \/ Trigger
    \/ \E o \in Failures \cup Answers(GoodItems) : GeminiReturns("t1", o, 0, {})

SpecListing == InitListing /\ [][NextListing]_vars

\* C14: the list a trigger gives the engine holds every row of the other
\* table, however many there are.
C14_CompleteCandidateSet ==
    \A r \in Runs : Suspended(r) =>
        run[r].cands = IF run[r].kind = "need" THEN volunteers ELSE DOMAIN needs

\* Triggered runs one after the other on a fixed population, the store
\* failing at any create_match of a run or at none; Gemini answers with up to
\* one item more than MaxResp, so that an item can fail between two others.
StoreAnswers == {[kind |-> "json", items |-> a] : a \in SeqsUpTo(GoodItems, MaxResp + 1)}

InitStore == Populated /\ kept = NoKept(FALSE)

NextStore ==
    \/ Trigger
    \/ \E o \in Failures \cup StoreAnswers, failAt \in 0..(MaxResp + 1) : GeminiReturns("t1", o, failAt, {})

SpecStore == InitStore /\ [][NextStore]_vars

\* The events of a log that close the handling of one item of the response
ItemIndexes(log) == EventIndexes(log, {"record", "warn_nonexistent", "warn_format", "raise"})

\* C15: a run ends with an error exactly when a create_match of it failed;
\* the failure is the last thing the run did (no notification for the failed
\* item, no later item handled), the item that failed is the one the response
\* has at that position, and the pivot's rows are then the rows recorded
\* before the failure and nothing else: not the failed item's row, not a row
\* the run deleted when it began.
C15_PersistenceErrorPropagates ==
    EngineRan =>
        LET raises == EventIndexes(last.log, {"raise"})
            at == Cardinality(ItemIndexes(last.log))
        IN  /\ last.ret = "raised" <=> raises # {}
            /\ raises # {} =>
                   /\ raises = {Len(last.log)}
                   /\ at <= Len(last.resp.items)
                   /\ last.resp.items[at].id.v = Counterpart(last.log[Len(last.log)], last.kind)
                   /\ PivotRows(matches, last.kind, last.id) = Recorded(last.log)

\* A run whose second create_match failed: one row recorded before, one item
\* left unhandled after, and rows of the pivot deleted at its start
C15_Witness ==
    /\ EngineRan
    /\ last.ret = "raised"
    /\ last.kind = "need"
    /\ Cardinality(RecordIndexes(last.log)) = 1
    /\ Len(last.resp.items) = MaxResp + 1
    /\ Cardinality(ItemIndexes(last.log)) = MaxResp
    /\ last.cleared # EmptyBag
    /\ BagSize(PivotRows(matches, last.kind, last.id)) = 1

\* C16: whatever fails inside a run, the trigger that runs it returns
\* normally: no error reaches the scheduler.
C16_NoExceptionEscapes == EngineRan => last.ret = "done"

\* C17: a run that ended sent one request to Gemini when its list of
\* candidates was not empty and none when it was empty, and once the answer
\* is back, whatever it is, the run is over: it is not waiting for Gemini a
\* second time.
C17_SingleLlmCall ==
    /\ EngineRan =>
           Cardinality(EventIndexes(last.log, {"llm_call"})) = IF last.cands = {} THEN 0 ELSE 1
    /\ LlmAnswered => last.cands # {} /\ last.ret # "suspended" /\ NoRunInProgress

\* Gemini failed, and the run ended on that one request
C17_Witness ==
    /\ LlmAnswered
    /\ last.resp.none
    /\ last.cands # {}
    /\ last.ret = "done"
    /\ NoRunInProgress
    /\ last.log[2].ev = "llm_call"
    /\ last.log[Len(last.log)].ev = "no_valid_matches"

\* The messages of a log, and among them the first of each notification call
MailIndexes(log) == EventIndexes(log, {"email_sent", "email_error"})

CallIndexes(log) == {j \in MailIndexes(log) : log[j].s = "volunteer"}

\* C18: in the order of what a run did, a notification call comes directly
\* after the record of the same pair, whose row is in the store; there are as
\* many calls as records, every message belongs to such a call, and what
\* follows a skipped item or a failed record is never a message.
C18_RecordThenNotify ==
    LlmAnswered =>
        LET log == last.log
        IN  /\ \A j \in CallIndexes(log) :
                   /\ log[j - 1].ev = "record"
                   /\ log[j - 1].v = log[j].v /\ log[j - 1].n = log[j].n
                   /\ BagIn(RowAt(log, j - 1), matches)
            /\ \A j \in MailIndexes(log) \ CallIndexes(log) :
                   /\ j - 1 \in CallIndexes(log)
                   /\ log[j - 1].v = log[j].v /\ log[j - 1].n = log[j].n
            /\ Cardinality(CallIndexes(log)) = Cardinality(RecordIndexes(log))
            /\ \A i \in EventIndexes(log, {"warn_format", "warn_nonexistent", "raise"}) :
                   i < Len(log) => i + 1 \notin MailIndexes(log)

\* A response of two items: the first skipped, the second recorded and
\* notified
C18_Witness ==
    /\ LlmAnswered
    /\ last.ret = "done"
    /\ Len(last.resp.items) = 2
    /\ Len(last.log) = 6
    /\ last.log[3].ev \in {"warn_format", "warn_nonexistent"}
    /\ last.log[4].ev = "record"
    /\ last.log[5].ev = "email_sent"

\* The rows of m for one (volunteer_id, need_id) pair
PairRows(m, v, n) == GetMatchesForVolunteer(GetMatchesForNeed(m, n), v)

RowPivot(row, kind) == IF kind = "need" THEN row.need_id ELSE row.volunteer_id

\* The direction of the run a step belongs to
StepKind(l) ==
    IF l.op \in {"trigger_need_matching", "analyze_and_match"} THEN "need"
    ELSE IF l.op \in {"trigger_volunteer_matching", "analyze_volunteer_against_all_needs"} THEN "volunteer"
    ELSE l.kind

\* C20: a step of a matching run (its start or its end) for need N changes the
\* number of copies of no row whose need_id is not N, a step of a run for
\* volunteer V that of no row whose volunteer_id is not V, and neither changes
\* the volunteers or the needs.
C20_FrameStep ==
    last'.op \in {"trigger_need_matching", "trigger_volunteer_matching", "gemini_returns"} =>
        /\ volunteers' = volunteers
        /\ needs' = needs
        /\ \A row \in DOMAIN matches \cup DOMAIN matches' :
               RowPivot(row, StepKind(last')) # last'.id =>
                   CopiesIn(row, matches') = CopiesIn(row, matches)

C20_CrossPivotFrame == [][C20_FrameStep]_vars

\* A run that deleted rows of its pivot and recorded new ones while another
\* pivot of the same direction has rows
C20_Witness ==
    /\ LlmAnswered
    /\ last.ret = "done"
    /\ last.cleared # EmptyBag
    /\ RecordIndexes(last.log) # {}
    /\ \E row \in DOMAIN matches : RowPivot(row, last.kind) # last.id

\* C21: a create_need step that adds a need returns it and has given exactly
\* one task to add_task, with the id of the need now in the table; one that
\* adds nothing returns None and has scheduled nothing.  An update_need step
\* returns the need with exactly one task of its id, or None with no task,
\* and None is what it returns when the table has no need of that id.
C21_NeedStep ==
    /\ last'.op = "create_need" =>
           LET made == DOMAIN needs' \ DOMAIN needs
           IN  IF made # {}
               THEN /\ made = {last'.id}
                    /\ last'.ret = "need"
                    /\ last'.tasks = <<last'.id>>
               ELSE /\ needs' = needs
                    /\ last'.ret = "None"
                    /\ last'.tasks = <<>>
    /\ last'.op = "update_need" =>
           /\ needs' = needs
           /\ last'.ret \in {"need", "None"}
           /\ last'.ret = "need" => GetNeed(needs', last'.id) /\ last'.tasks = <<last'.id>>
           /\ last'.ret = "None" => last'.tasks = <<>>
           /\ ~GetNeed(needs, last'.id) => last'.ret = "None"

C21_NeedTriggerScheduling == [][C21_NeedStep]_vars

\* An update_need by someone who is not the owner, while the need exists
C21_Witness ==
    /\ last.op = "update_need"
    /\ last.ret = "None"
    /\ last.tasks = <<>>
    /\ GetNeed(needs, last.id)

\* C22: a create_volunteer step that adds a volunteer returns it and has
\* given exactly one task, with the volunteer's id, to the background-task
\* scheduler; one that adds nothing returns None and has scheduled nothing.
\* An update_volunteer step of an existing volunteer returns it with exactly
\* one task of its id, and of a missing one returns None with no task.
C22_VolunteerStep ==
    /\ last'.op = "create_volunteer" =>
           LET made == volunteers' \ volunteers
           IN  IF made # {}
               THEN /\ made = {last'.id}
                    /\ last'.ret = "volunteer"
                    /\ last'.tasks = <<last'.id>>
               ELSE /\ last'.ret = "None"
                    /\ last'.tasks = <<>>
    /\ last'.op = "update_volunteer" =>
           IF GetVolunteer(volunteers, last'.id)
           THEN last'.ret = "volunteer" /\ last'.tasks = <<last'.id>>
           ELSE last'.ret = "None" /\ last'.tasks = <<>>

C22_VolunteerTriggerScheduling == [][C22_VolunteerStep]_vars

C24_TwoSidedNotification ==
    LlmAnswered =>
        LET log == last.log
        IN  /\ Cardinality(MailIndexes(log)) = 2 * Cardinality(RecordIndexes(log))
            /\ \A i \in RecordIndexes(log) :
                   /\ {i + 1, i + 2} \subseteq MailIndexes(log)
                   /\ log[i + 1].s = "volunteer" /\ log[i + 2].s = "contact"
                   /\ \A j \in {i + 1, i + 2} : log[j].v = log[i].v /\ log[j].n = log[i].n
                   /\ i + 3 \notin MailIndexes(log)

\* Two notification calls in one run, every send accepted by the provider
C24_Witness ==
    /\ LlmAnswered
    /\ Cardinality(RecordIndexes(last.log)) = 2
    /\ Cardinality(EventIndexes(last.log, {"email_sent"})) = 4
    /\ last.log[4] = Ev("email_sent", last.log[3].v, last.log[3].n, "volunteer")
    /\ last.log[5] = Ev("email_sent", last.log[3].v, last.log[3].n, "contact")

\* C25: an update_need or a delete_need step whose need_id has no row, or
\* whose owner_id is not the owner of that row, returns None (update) or
\* False (delete), schedules no task, and changes no need and no match row.
C25_NotOwnerStep ==
    \A n \in {last'.id} \cap NeedIds, o \in VolunteerIds :
        last'.op \in {"update_need", "delete_need"} /\ ~(GetNeed(needs, n) /\ needs[n] = o) =>
            /\ UpdateNeed(n, o) =>
                   last'.ret = "None" /\ last'.tasks = <<>> /\ needs' = needs /\ matches' = matches
            /\ DeleteNeed(n, o) =>
                   last'.ret = "False" /\ last'.tasks = <<>> /\ needs' = needs /\ matches' = matches

Calm(log) ==
    [i \in DOMAIN log |-> IF log[i].ev = "email_error" THEN [log[i] EXCEPT !.ev = "email_sent"] ELSE log[i]]

\* C26: the end of a run for which the provider refused every send leaves the
\* same match rows, the same return and, but for the outcome of the sends,
\* the same sequence of events as the same answer handled with a provider
\* that accepts every send; every row it recorded is in the store.
C26_SendsFailStep ==
    last'.op = "gemini_returns" =>
        \A o \in Failures \cup Answers(GoodItems \cup OddItems), failAt \in 0..MaxResp :
            CallGeminiApi(o) = last'.resp /\ GeminiReturns("t1", o, failAt, Recipients) =>
                LET rec == run["t1"]
                    db == Db(volunteers, needs, fkEnforced)
                    log == SubSeq(last'.log, 1, 2)
                    ideal == IF rec.kind = "need"
                             THEN AnalyzeAndMatchRest(matches, log, last'.resp, rec.pivot, db, failAt, {})
                             ELSE AnalyzeVolunteerRest(matches, log, last'.resp, rec.pivot, db, failAt, {})
                IN  /\ matches' = ideal.m
                    /\ Calm(last'.log) = ideal.log
                    /\ (last'.ret = "raised") = ideal.raised
                    /\ \A i \in RecordIndexes(last'.log) : BagIn(RowAt(last'.log, i), matches')

C26_NotificationFailureDoesNotBlock == [][C26_SendsFailStep]_vars

\* Both sends of the first accepted item failed and the second item was
\* recorded and notified all the same
C26_Witness ==
    /\ LlmAnswered
    /\ last.kind = "need"
    /\ last.ret = "done"
    /\ Len(last.log) = 8
    /\ last.log[3].ev = "record" /\ last.log[4].ev = "email_error" /\ last.log[5].ev = "email_error"
    /\ last.log[6].ev = "record" /\ last.log[7].ev = "email_error"
    /\ BagSize(GetMatchesForNeed(matches, last.id)) = 2

DistinctAnswers ==
    {o \in Answers(GoodItems) : \A i, j \in DOMAIN o.items : o.items[i].id = o.items[j].id => i = j}

InitDistinct == Populated /\ kept = NoKept(FALSE)

NextDistinct ==
    \/ Trigger
    \/ \E o \in Failures \cup DistinctAnswers, failAt \in 0..MaxResp : GeminiReturns("t1", o, failAt, {})

SpecDistinct == InitDistinct /\ [][NextDistinct]_vars

\* C28: with runs that follow each other and answers that name an id once,
\* no (volunteer_id, need_id) pair has more than one match row.
C28_NoDuplicatePairsSequential ==
    \A row \in DOMAIN matches : BagSize(PairRows(matches, row.volunteer_id, row.need_id)) <= 1

\* A volunteer's run that deleted a row written for the same pair by a run of
\* the need, and recorded the pair again next to the row of another pivot
C28_Witness ==
    /\ LlmAnswered
    /\ last.kind = "volunteer"
    /\ last.ret = "done"
    /\ \E row \in DOMAIN last.cleared : BagIn(row, Recorded(last.log)) /\ BagIn(row, matches)
    /\ BagSize(Recorded(last.log)) = 2
    /\ \E row \in DOMAIN matches : row.volunteer_id # last.id

IsRecord(e) == e.ev = "record"

C30_NeedOwnershipIntegrity ==
    \A n \in DOMAIN needs : GetVolunteer(volunteers, needs[n])

====
